---- MODULE Spec2Model ----
(***************************************************************************)
(* Model of the fetch -> filter -> write pipeline of                       *)
(* scripts/disa_cyber_expiring.py (current revision) and of the page loop  *)
(* of scripts/scripts/disa_cyber_expiring.py (earlier revision).           *)
(*                                                                         *)
(* Dates.  The scripts compare ISO date strings (YYYY-MM-DD) with <=.      *)
(* date.isoformat() and the ten characters accepted by _DATE_RE are fixed  *)
(* width, so the string order is the order of the calendar days; a date    *)
(* string is modelled by its day number (1, 2, 3, ...) and the empty       *)
(* string "" by 0.                                                         *)
(*                                                                         *)
(* Raw field values.  A value of a row is [kind, day]:                     *)
(*   none      the key is absent or its value is None                      *)
(*   empty     the empty string                                            *)
(*   garbage   a non-empty string that does not start with a date          *)
(*   date      "YYYY-MM-DD"                                                *)
(*   datetime  "YYYY-MM-DDT00:00:00"                                       *)
(*                                                                         *)
(* Responses.  A response with status 200 carries the JSON document of     *)
(* the API (results, page_metadata).  A connection failure is status 0.    *)
(***************************************************************************)
EXTENDS Integers, Sequences, FiniteSets, TLC

VARIABLES
    script,           \* which revision runs: "current" or "old"
    start,            \* window start (day number)
    end,              \* window end (day number)
    agency_patterns,  \* AGENCY_MATCH patterns
    max_pages,        \* MAX_PAGES
    pc,               \* "fetching", "received", "done", "error"
    page,             \* page number of the loop
    retries,          \* retries already made by the adapter for this request
    last,             \* status of the last attempt (0: connection failure, -1: none yet)
    all_scanned,      \* counter of scanned rows
    kept,             \* rows kept so far
    written,          \* TRUE once output/disa_cyber_expiring.csv has been written
    report,           \* rows of the CSV file
    stop,             \* which break left the loop
    requested,        \* history: page numbers posted, in order
    fetched,          \* history: pages processed by the loop, in order
    all_rows,         \* earlier revision: accumulated rows
    refPc,            \* the loop without the early-stop check: position
    refPage,          \*   its page number
    refKept,          \*   its kept rows
    refFetched        \*   the pages it processed

vars == <<script, start, end, agency_patterns, max_pages, pc, page, retries,
          last, all_scanned, kept, written, report, stop, requested, fetched, all_rows,
          refPc, refPage, refKept, refFetched>>

----------------------------------------------------------------------------
(* Bounds of the environment *)

MaxRecords == 2      \* awards the API serves in one run of the current script
MaxPagesCfg == 2     \* MAX_PAGES is drawn from 0..MaxPagesCfg

(* Program constants *)

Today == 2
RetryTotal == 8
OldMaxPages == 25
OldEnd == 3
StatusForcelist == {429, 500, 502, 503, 504}

HorizonChoices == {-1, 0, 1}
PatternChoices == {{}, {"disa"}}
ConnectionFailure == 0
\* outcomes of one attempt: no response, 200, another 2xx, a client error,
\* a status of the forcelist
Statuses == {ConnectionFailure, 200, 203, 400, 503}

----------------------------------------------------------------------------
(* Rows *)

NoneVal == [kind |-> "none", day |-> 0]
EmptyStr == [kind |-> "empty", day |-> 0]
Garbage == [kind |-> "garbage", day |-> 0]
DateVal(d) == [kind |-> "date", day |-> d]
DateTimeVal(d) == [kind |-> "datetime", day |-> d]

\* ed: "End Date"; alt: "period_of_performance_current_end_date";
\* hay: the patterns that occur in the four agency fields joined and lowered.
Rows ==
    { [ed |-> DateVal(1),     alt |-> NoneVal,    hay |-> {"disa"}],
      [ed |-> DateTimeVal(2), alt |-> NoneVal,    hay |-> {"disa"}],
      [ed |-> DateVal(2),     alt |-> NoneVal,    hay |-> {}],
      [ed |-> NoneVal,        alt |-> DateVal(3), hay |-> {"disa"}],
      [ed |-> Garbage,        alt |-> DateVal(2), hay |-> {"disa"}],
      [ed |-> NoneVal,        alt |-> NoneVal,    hay |-> {"disa"}] }

OldRows == { [ed |-> DateVal(2), alt |-> NoneVal, hay |-> {"disa"}] }

HasNextValues == {"true", "false", "absent"}

SeqsUpTo(S, n) == UNION {[1..k -> S] : k \in 0..n}

----------------------------------------------------------------------------
(* Pure functions of the script *)

Truthy(v) == v.kind \notin {"none", "empty"}

\* _date_only: "" for a falsy value or when _DATE_RE does not match
_date_only(s) ==
    IF ~Truthy(s) THEN 0
    ELSE IF s.kind \in {"date", "datetime"} THEN s.day
    ELSE 0

\* _get_end_date: first truthy value of the key chain, else ""
_get_end_date(row) ==
    IF Truthy(row.ed) THEN row.ed
    ELSE IF Truthy(row.alt) THEN row.alt
    ELSE EmptyStr

\* _matches_agency
_matches_agency(row, patterns) ==
    IF patterns = {} THEN TRUE
    ELSE \E p \in patterns : p \in row.hay

\* _normalize on a scalar: None -> "", str(v) otherwise
_normalize(v) == IF v.kind = "none" THEN EmptyStr ELSE v

\* the dict handed to DictWriter.writerow: only the keys of FIELDS
CsvRow(row) == [ed |-> _normalize(row.ed), hay |-> row.hay]

CsvRows(rows) == [i \in 1..Len(rows) |-> CsvRow(rows[i])]

RECURSIVE MinOf(_, _)
MinOf(dates, i) ==
    IF i = Len(dates) THEN dates[i]
    ELSE LET m == MinOf(dates, i + 1)
         IN IF dates[i] < m THEN dates[i] ELSE m

\* variant: the upper bound of the window is not tested
InWindowNoUpper(ed) == start <= ed

\* the window test of the row loop
InWindow(ed) == start <= ed /\ ed <= end

\* variant: a kept row is inserted at the front of the list
RECURSIVE LoopRowsPrepend(_, _, _, _)
LoopRowsPrepend(rows, i, k, dates) ==
    IF i > Len(rows) THEN [kept |-> k, page_end_dates |-> dates]
    ELSE LET row == rows[i]
             ed == _date_only(_get_end_date(row))
             dates2 == IF ed # 0 THEN Append(dates, ed) ELSE dates
         IN IF ~_matches_agency(row, agency_patterns)
                THEN LoopRowsPrepend(rows, i + 1, k, dates2)
            ELSE IF ed = 0
                THEN LoopRowsPrepend(rows, i + 1, k, dates2)
            ELSE IF ~(start <= ed /\ ed <= end)
                THEN LoopRowsPrepend(rows, i + 1, k, dates2)
            ELSE LoopRowsPrepend(rows, i + 1, <<row>> \o k, dates2)

\* the body of "for row in rows": the kept list and page_end_dates after it
RECURSIVE LoopRows(_, _, _, _)
LoopRows(rows, i, k, dates) ==
    IF i > Len(rows) THEN [kept |-> k, page_end_dates |-> dates]
    ELSE LET row == rows[i]
             ed == _date_only(_get_end_date(row))
             dates2 == IF ed # 0 THEN Append(dates, ed) ELSE dates
         IN IF ~_matches_agency(row, agency_patterns)
                THEN LoopRows(rows, i + 1, k, dates2)
            ELSE IF ed = 0
                THEN LoopRows(rows, i + 1, k, dates2)
            ELSE IF ~InWindow(ed)
                THEN LoopRows(rows, i + 1, k, dates2)
            ELSE LoopRows(rows, i + 1, Append(k, row), dates2)

\* variant: the stop also triggers when the minimum is the window start
EarlyStopOffByOne(page_end_dates) ==
    page_end_dates # <<>> /\ MinOf(page_end_dates, 1) <= start

\* the early-stop test on page_end_dates
EarlyStop(page_end_dates) ==
    page_end_dates # <<>> /\ MinOf(page_end_dates, 1) < start

\* variant: an absent flag counts as true
HasNextUnlessFalse(flag) == flag # "false"

\* meta.get("hasNext") as a condition
HasNext(flag) == flag = "true"

\* the cap test made after page += 1
OverCap(pg) == pg > max_pages

\* variant: only server errors raise
RaisesForStatusServerOnly(status) == 500 <= status /\ status < 600

\* raise_for_status(): raises for 4xx and 5xx only
RaisesForStatus(status) == 400 <= status /\ status < 600

\* variant: every error status is retried
RetryableAnyError(status) == status = ConnectionFailure \/ status >= 400

\* the adapter retries a connection failure and the statuses of the forcelist
Retryable(status) == status = ConnectionFailure \/ status \in StatusForcelist

\* variant: the rows of a page are counted only after the early-stop test
IterationMiscount(rows, flag, pg, k, scanned, early) ==
    IF rows = <<>>
        THEN [pc |-> "write", stop |-> "empty", page |-> pg, kept |-> k,
              all_scanned |-> scanned]
    ELSE LET res == LoopRows(rows, 1, k, <<>>)
             n == scanned + Len(rows)
         IN IF early /\ EarlyStop(res.page_end_dates)
                THEN [pc |-> "write", stop |-> "early", page |-> pg,
                      kept |-> res.kept, all_scanned |-> scanned]
            ELSE IF ~HasNext(flag)
                THEN [pc |-> "write", stop |-> "last", page |-> pg,
                      kept |-> res.kept, all_scanned |-> n]
            ELSE IF OverCap(pg + 1)
                THEN [pc |-> "write", stop |-> "cap", page |-> pg + 1,
                      kept |-> res.kept, all_scanned |-> n]
            ELSE [pc |-> "fetching", stop |-> "none", page |-> pg + 1,
                  kept |-> res.kept, all_scanned |-> n]

\* One pass of the while body on a parsed page.  early = TRUE is the loop of
\* the script; early = FALSE is the same loop without the early-stop check.
Iteration(rows, flag, pg, k, scanned, early) ==
    IF rows = <<>>
        THEN [pc |-> "write", stop |-> "empty", page |-> pg, kept |-> k,
              all_scanned |-> scanned]
    ELSE LET res == LoopRows(rows, 1, k, <<>>)
             n == scanned + Len(rows)
         IN IF early /\ EarlyStop(res.page_end_dates)
                THEN [pc |-> "write", stop |-> "early", page |-> pg,
                      kept |-> res.kept, all_scanned |-> n]
            ELSE IF ~HasNext(flag)
                THEN [pc |-> "write", stop |-> "last", page |-> pg,
                      kept |-> res.kept, all_scanned |-> n]
            ELSE IF OverCap(pg + 1)
                THEN [pc |-> "write", stop |-> "cap", page |-> pg + 1,
                      kept |-> res.kept, all_scanned |-> n]
            ELSE [pc |-> "fetching", stop |-> "none", page |-> pg + 1,
                  kept |-> res.kept, all_scanned |-> n]

RECURSIVE TotalRows(_, _)
TotalRows(pages, i) ==
    IF i > Len(pages) THEN 0 ELSE Len(pages[i].rows) + TotalRows(pages, i + 1)

\* the pages the API can still serve in this run
Pages(served) ==
    [rows : SeqsUpTo(Rows, MaxRecords - served), hasNext : HasNextValues]

----------------------------------------------------------------------------
(* Initial state: configuration read, session built, nothing fetched *)

Init ==
    /\ script \in {"current", "old"}
    /\ start = Today
    /\ IF script = "current"
          THEN /\ \E horizon_days \in HorizonChoices : end = Today + horizon_days
               /\ agency_patterns \in PatternChoices
               /\ max_pages \in 0..MaxPagesCfg
          ELSE /\ end = OldEnd
               /\ agency_patterns = {}
               /\ max_pages = OldMaxPages
    /\ pc = "fetching"
    /\ page = 1
    /\ retries = 0
    /\ last = -1
    /\ all_scanned = 0
    /\ kept = <<>>
    /\ written = FALSE
    /\ report = <<>>
    /\ stop = "none"
    /\ requested = <<>>
    /\ fetched = <<>>
    /\ all_rows = <<>>
    /\ refPc = "fetching"
    /\ refPage = 1
    /\ refKept = <<>>
    /\ refFetched = <<>>

config == <<script, start, end, agency_patterns, max_pages>>
refVars == <<refPc, refPage, refKept, refFetched>>

Posted == IF retries = 0 THEN Append(requested, page) ELSE requested

----------------------------------------------------------------------------
(* Current revision *)

\* variant: the retry budget starts afresh on every attempt
RetryAttemptFresh(status) ==
    /\ script = "current" /\ pc = "fetching"
    /\ Retryable(status)
    /\ retries' = 1
    /\ last' = status
    /\ requested' = Posted
    /\ UNCHANGED <<config, pc, page, all_scanned, kept, written, report, stop,
                   fetched, all_rows, refVars>>

\* session.post: an attempt fails in a retryable way and the adapter retries
RetryAttempt(status) ==
    /\ script = "current" /\ pc = "fetching"
    /\ Retryable(status)
    /\ retries < RetryTotal
    /\ retries' = retries + 1
    /\ last' = status
    /\ requested' = Posted
    /\ UNCHANGED <<config, pc, page, all_scanned, kept, written, report, stop,
                   fetched, all_rows, refVars>>

\* session.post raises (retries exhausted on connection failures) or returns
\* a response for which raise_for_status() raises: the run aborts
Abort(status) ==
    /\ script = "current" /\ pc = "fetching"
    /\ \/ status = ConnectionFailure
       \/ RaisesForStatus(status)
    /\ Retryable(status) => retries = RetryTotal
    /\ last' = status
    /\ requested' = Posted
    /\ pc' = "error"
    /\ refPc' = "error"
    /\ UNCHANGED <<config, page, retries, all_scanned, kept, written, report,
                   stop, fetched, all_rows, refPage, refKept, refFetched>>

\* session.post returns a response for which raise_for_status() does not raise
Receive(status) ==
    /\ script = "current" /\ pc = "fetching"
    /\ ~RaisesForStatus(status) /\ ~Retryable(status)
    /\ last' = status
    /\ requested' = Posted
    /\ pc' = "received"
    /\ retries' = 0
    /\ UNCHANGED <<config, page, all_scanned, kept, written, report, stop,
                   fetched, all_rows, refVars>>

\* r.json() raises: the body of a response other than a 200 need not be the
\* JSON document of the API
BadBody ==
    /\ script = "current" /\ pc = "received"
    /\ last # 200
    /\ pc' = "error"
    /\ refPc' = "error"
    /\ UNCHANGED <<config, page, retries, last, all_scanned, kept, written,
                   report, stop, requested, fetched, all_rows, refPage, refKept,
                   refFetched>>

\* r.json() is parsed: one pass of the loop; a pass that breaks goes on to
\* write the CSV from kept
ProcessPage(body) ==
    /\ script = "current" /\ pc = "received"
    /\ LET it == Iteration(body.rows, body.hasNext, page, kept, all_scanned, TRUE)
           rf == Iteration(body.rows, body.hasNext, refPage, refKept, 0, FALSE)
           entry == [rows |-> body.rows, hasNext |-> body.hasNext]
       IN /\ pc' = IF it.pc = "write" THEN "done" ELSE it.pc
          /\ written' = (it.pc = "write")
          /\ report' = IF it.pc = "write" THEN CsvRows(it.kept) ELSE report
          /\ stop' = it.stop
          /\ page' = it.page
          /\ kept' = it.kept
          /\ all_scanned' = it.all_scanned
          /\ fetched' = Append(fetched, entry)
          /\ refPc' = IF rf.pc = "write" THEN "done" ELSE rf.pc
          /\ refPage' = rf.page
          /\ refKept' = rf.kept
          /\ refFetched' = Append(refFetched, entry)
    /\ UNCHANGED <<config, retries, last, requested, all_rows>>

----------------------------------------------------------------------------
(* The same loop without the early-stop check, continuing on the same API   *)
(* after the script has stopped early                                       *)

RefProcessPage(body) ==
    /\ script = "current" /\ pc = "done" /\ refPc = "fetching"
    /\ LET rf == Iteration(body.rows, body.hasNext, refPage, refKept, 0, FALSE)
           entry == [rows |-> body.rows, hasNext |-> body.hasNext]
       IN /\ refPc' = IF rf.pc = "write" THEN "done" ELSE rf.pc
          /\ refPage' = rf.page
          /\ refKept' = rf.kept
          /\ refFetched' = Append(refFetched, entry)
    /\ UNCHANGED <<config, pc, page, retries, last, all_scanned, kept, written,
                   report, stop, requested, fetched, all_rows>>

RefAbort ==
    /\ script = "current" /\ pc = "done" /\ refPc = "fetching"
    /\ refPc' = "error"
    /\ UNCHANGED <<config, pc, page, retries, last, all_scanned, kept, written,
                   report, stop, requested, fetched, all_rows, refPage, refKept,
                   refFetched>>

----------------------------------------------------------------------------
(* Earlier revision: requests.post without a retrying adapter *)

\* in_window of the earlier revision: the raw "End Date" string is compared
OldInWindow(row) ==
    LET ed == IF Truthy(row.ed) THEN row.ed ELSE EmptyStr
    IN IF ed.kind = "date" THEN start <= ed.day /\ ed.day <= end
       ELSE IF ed.kind = "datetime" THEN start <= ed.day /\ ed.day < end
       ELSE FALSE

\* one pass of the while body of the earlier revision
OldIteration(rows, flag, pg, acc) ==
    IF rows = <<>>
        THEN [pc |-> "write", stop |-> "empty", page |-> pg, all_rows |-> acc]
    ELSE IF ~HasNext(flag)
        THEN [pc |-> "write", stop |-> "last", page |-> pg, all_rows |-> acc \o rows]
    ELSE IF pg + 1 > OldMaxPages
        THEN [pc |-> "write", stop |-> "cap", page |-> pg + 1, all_rows |-> acc \o rows]
    ELSE [pc |-> "fetching", stop |-> "none", page |-> pg + 1, all_rows |-> acc \o rows]

OldAbort(status) ==
    /\ script = "old" /\ pc = "fetching"
    /\ status = ConnectionFailure \/ RaisesForStatus(status)
    /\ last' = status
    /\ requested' = Append(requested, page)
    /\ pc' = "error"
    /\ UNCHANGED <<config, page, retries, all_scanned, kept, written, report,
                   stop, fetched, all_rows, refVars>>

OldProcessPage(rows, flag) ==
    /\ script = "old" /\ pc = "fetching"
    /\ last' = 200
    /\ requested' = Append(requested, page)
    /\ LET it == OldIteration(rows, flag, page, all_rows)
       IN /\ pc' = IF it.pc = "write" THEN "done" ELSE it.pc
          /\ written' = (it.pc = "write")
          /\ report' = IF it.pc = "write"
                          THEN CsvRows(SelectSeq(it.all_rows, OldInWindow))
                          ELSE report
          /\ stop' = it.stop
          /\ page' = it.page
          /\ all_rows' = it.all_rows
    /\ UNCHANGED <<config, retries, all_scanned, kept, fetched, refVars>>

----------------------------------------------------------------------------

Next ==
    \/ \E status \in Statuses : RetryAttempt(status)
    \/ \E status \in Statuses : Abort(status)
    \/ \E status \in Statuses : Receive(status)
    \/ BadBody
    \/ \E body \in Pages(TotalRows(refFetched, 1)) : ProcessPage(body)
    \/ \E body \in Pages(TotalRows(refFetched, 1)) : RefProcessPage(body)
    \/ RefAbort
    \/ \E status \in Statuses : OldAbort(status)
    \/ \E rows \in SeqsUpTo(OldRows, 1) :
          \E flag \in HasNextValues : OldProcessPage(rows, flag)

Spec == Init /\ [][Next]_vars

\* Termination is checked with the widest window and no agency pattern: the
\* breaks of the loop read start, max_pages and the page, never end or the
\* patterns.
InitFair ==
    /\ Init
    /\ script = "current" => (end = Today + 1 /\ agency_patterns = {})

\* every HTTP call returns and the script keeps running
FairSpec == InitFair /\ [][Next]_vars /\ WF_vars(Next)

----------------------------------------------------------------------------
(* Type and sanity *)

TypeOK ==
    /\ script \in {"current", "old"}
    /\ pc \in {"fetching", "received", "done", "error"}
    /\ retries \in 0..RetryTotal
    /\ page \in 1..(OldMaxPages + 1)
    /\ written \in BOOLEAN
    /\ (pc \in {"fetching", "received"} /\ script = "current")
          => (refPc = "fetching" /\ refPage = page /\ refKept = kept
              /\ refFetched = fetched)

----------------------------------------------------------------------------
(* Vocabulary of the properties *)

RECURSIVE AllRows(_, _)
AllRows(pages, i) ==
    IF i > Len(pages) THEN <<>> ELSE pages[i].rows \o AllRows(pages, i + 1)

ExtractedEndDate(row) == _date_only(_get_end_date(row))

\* the keep condition as the report step states it
Keep(row) ==
    /\ ExtractedEndDate(row) # 0
    /\ start <= ExtractedEndDate(row)
    /\ ExtractedEndDate(row) <= end
    /\ (agency_patterns = {} \/ \E p \in agency_patterns : p \in row.hay)

\* the rows are sorted by end date descending (rows without a date aside)
SortedDesc(rows) ==
    \A i, j \in DOMAIN rows :
        (i < j /\ ExtractedEndDate(rows[i]) # 0 /\ ExtractedEndDate(rows[j]) # 0)
            => ExtractedEndDate(rows[i]) >= ExtractedEndDate(rows[j])

IsHttpError(status) == status >= 400 /\ status <= 599

\* a step in which session.post made an attempt
AttemptStep ==
    script = "current" /\ pc = "fetching" /\ (retries' # retries \/ pc' # pc)

----------------------------------------------------------------------------
(* C1 *)

\* C1: on an API sorted by end date descending, the loop with the early-stop
\* check and the same loop without it end with the same kept list.
C1_EarlyStopIsOptimisation ==
    (script = "current" /\ pc = "done" /\ refPc = "done"
        /\ SortedDesc(AllRows(refFetched, 1)))
        => kept = refKept

\* the stop was triggered on a page with a kept record and the loop without
\* the check fetched on
C1_Witness ==
    /\ script = "current" /\ pc = "done" /\ refPc = "done"
    /\ stop = "early"
    /\ SortedDesc(AllRows(refFetched, 1))
    /\ Len(refFetched) > Len(fetched)
    /\ \E i \in DOMAIN fetched[Len(fetched)].rows :
          Keep(fetched[Len(fetched)].rows[i])

----------------------------------------------------------------------------
(* C2 *)

\* C2: when the run finishes, the report holds exactly the fetched records
\* that pass the date and agency conditions, in fetch order.
C2_ReportIsFilteredFetch ==
    (script = "current" /\ pc = "done")
        => /\ written
           /\ kept = SelectSeq(AllRows(fetched, 1), Keep)
           /\ report = CsvRows(SelectSeq(AllRows(fetched, 1), Keep))

\* two different records from two pages are reported, one record was dropped
C2_Witness ==
    /\ script = "current" /\ pc = "done"
    /\ Len(fetched) = 2
    /\ Len(report) = 2
    /\ report[1] # report[2]
    /\ fetched[1].rows # <<>> /\ fetched[2].rows # <<>>

----------------------------------------------------------------------------
(* C3 *)

\* C3: at every point of the run each kept record has an end date inside the
\* window, and no record that fails the agency match is kept.
C3_KeptInWindow ==
    script = "current"
        => /\ \A i \in DOMAIN kept :
                 /\ ExtractedEndDate(kept[i]) # 0
                 /\ start <= ExtractedEndDate(kept[i])
                 /\ ExtractedEndDate(kept[i]) <= end
           /\ \A i \in DOMAIN kept :
                 agency_patterns = {} \/ \E p \in agency_patterns : p \in kept[i].hay

\* a record in the window that fails the agency match was fetched beside a
\* kept one
C3_Witness ==
    /\ script = "current"
    /\ kept # <<>>
    /\ \E i \in DOMAIN fetched : \E j \in DOMAIN fetched[i].rows :
          LET row == fetched[i].rows[j]
          IN /\ start <= ExtractedEndDate(row) /\ ExtractedEndDate(row) <= end
             /\ agency_patterns # {}
             /\ ~(\E p \in agency_patterns : p \in row.hay)

----------------------------------------------------------------------------
(* C4 *)

\* C4: no page above max_pages is requested, and a stop by the cap goes on to
\* the report without an error.
C4_HardCeiling ==
    script = "current"
        => /\ \A i \in DOMAIN requested : requested[i] <= max_pages
           /\ (stop = "cap" => (pc = "done" /\ written))

----------------------------------------------------------------------------
(* C5 *)

\* C5: the loop of either revision eventually leaves the fetching state.
C5_LoopTerminates == <>(pc \in {"done", "error"})

\* the API kept answering with full pages and has-next until the cap stopped it
C5_Witness ==
    /\ script = "current" /\ pc = "done" /\ stop = "cap"
    /\ Len(fetched) = 2
    /\ \A i \in DOMAIN fetched : fetched[i].hasNext = "true" /\ fetched[i].rows # <<>>

----------------------------------------------------------------------------
(* C6 *)

----------------------------------------------------------------------------
(* C7 *)

\* C7: an attempt that ends in a connection failure or a forcelist status is
\* retried while fewer than RetryTotal retries were made and aborts the run
\* after that; any other 4xx aborts the run at once; retries never exceed
\* RetryTotal.
C7_RetryPolicy ==
    /\ [](retries <= RetryTotal)
    /\ [][AttemptStep =>
            IF last' = ConnectionFailure \/ last' \in StatusForcelist
                THEN \/ /\ retries < RetryTotal
                        /\ retries' = retries + 1
                        /\ pc' = "fetching" /\ page' = page
                     \/ /\ retries = RetryTotal
                        /\ pc' = "error"
            ELSE IF last' >= 400 /\ last' <= 499
                THEN pc' = "error" /\ retries' = retries
            ELSE TRUE]_vars

\* a 503 was retried eight times and then aborted the run
C7_Witness ==
    script = "current" /\ pc = "error" /\ retries = RetryTotal /\ last = 503

----------------------------------------------------------------------------
(* C8 *)

\* C8: the window satisfies start <= end and never changes.
C8_WindowOrdered ==
    /\ [](script = "current" => start <= end)
    /\ [][start' = start /\ end' = end]_vars

----------------------------------------------------------------------------
(* C9 *)

\* C9 as stated: pages are requested as 1, 2, ..., n, and page k+1 only after
\* page k returned status 200 with records, has-next true and no early stop.
C9_Original ==
    /\ [](script = "current" => \A i \in DOMAIN requested : requested[i] = i)
    /\ [][(script = "current" /\ Len(requested) >= 1
             /\ Len(requested') > Len(requested))
            => /\ last = 200
               /\ Len(fetched) = Len(requested)
               /\ fetched[Len(fetched)].rows # <<>>
               /\ fetched[Len(fetched)].hasNext = "true"
               /\ \A i \in DOMAIN fetched[Len(fetched)].rows :
                     LET d == ExtractedEndDate(fetched[Len(fetched)].rows[i])
                     IN d = 0 \/ d >= start]_vars

\* C9 amended: pages are requested as 1, 2, ..., n, and page k+1 only after
\* the response for page k passed raise_for_status() (a status below 400) and
\* carried records, has-next true and no early stop.
C9_PageSequence ==
    /\ [](script = "current" => \A i \in DOMAIN requested : requested[i] = i)
    /\ [][(script = "current" /\ Len(requested) >= 1
             /\ Len(requested') > Len(requested))
            => /\ last # ConnectionFailure /\ last < 400
               /\ Len(fetched) = Len(requested)
               /\ fetched[Len(fetched)].rows # <<>>
               /\ fetched[Len(fetched)].hasNext = "true"
               /\ \A i \in DOMAIN fetched[Len(fetched)].rows :
                     LET d == ExtractedEndDate(fetched[Len(fetched)].rows[i])
                     IN d = 0 \/ d >= start]_vars

\* page 2 was requested after a page 1 with records, and the empty page 2
\* ended the run
C9_Witness ==
    /\ script = "current" /\ pc = "done"
    /\ requested = <<1, 2>>
    /\ Len(fetched) = 2 /\ stop = "empty"

----------------------------------------------------------------------------
(* C10 *)

\* C10: the scanned counter is the number of records on the pages processed
\* so far, and the kept list is never longer than it.
C10_ScannedIsExact ==
    script = "current"
        => /\ all_scanned = TotalRows(fetched, 1)
           /\ Len(kept) <= all_scanned

\* the page that triggered the early stop is counted, with a record dropped
C10_Witness ==
    /\ script = "current" /\ stop = "early"
    /\ all_scanned = 2 /\ Len(kept) = 1

====
